---- MODULE Spec2Model ----
(***************************************************************************)
(* The stream / enumerator library of the repository: FromArray, Infinite, *)
(* Map, Where and ToArray, in the shapes the sources give it:              *)
(*   - streams.ts: `fields` is created inside Enumerate, one per           *)
(*     enumerator;                                                         *)
(*   - the compiled streams.js and typed-streams.js: `fields` is created   *)
(*     once per stream, outside Enumerate, and is captured by every        *)
(*     enumerator of that stream.                                          *)
(* A behaviour is one stream, two caller-held enumerators of it, and the   *)
(* calls to ToArray made on it.                                            *)
(***************************************************************************)
EXTENDS Integers, Sequences, FiniteSets, TLC

\* ---------------------------------------------------------------- bounds
MaxLen == 2        \* longest generated input array
MaxVal == 2        \* elements of generated arrays are 0..MaxVal
MaxCalls == 3      \* MoveNext calls recorded per enumerator between resets
MaxIndex == 4      \* an Infinite enumerator is followed up to this index
MaxToArray == 2    \* ToArray calls on the stream

\* ------------------------------------------------- values and JS truthiness
\* `a | undefined`: the value MoveNext returns at the end of the stream.
undefined == -1

Values == 0..MaxVal

\* `while (current)`, `current ? ... : ...`, `current && ...`: the JavaScript
\* truthiness of a number or undefined (0 and undefined are falsy).
Truthy(v) == v # undefined /\ v # 0

\* The caller-supplied functions of the sources and of the article:
\*   x => x * 3 (Map), x => x + 1 (Map), x => x (Infinite),
\*   x => x % 2 == 0 (Where), and x => x > 0 as a second predicate.
Apply(fn, v) ==
  CASE fn = "times3" -> v * 3
    [] fn = "plus1" -> v + 1
    [] fn = "id" -> v

Holds(p, v) ==
  CASE p = "even" -> v % 2 = 0
    [] p = "positive" -> v > 0
    [] p = "never" -> FALSE

Funs == {"times3", "plus1"}
Preds == {"even", "positive"}
Generators == {"id", "plus1"}

\* A caller-supplied function that throws: as f or getItem it is x => x + 1,
\* as predicate it accepts everything, and it throws on the argument 1.
ThrowOn1 == "throwOn1"

Throws(fn, v) == fn = ThrowOn1 /\ v = 1

\* What a call that throws ends with, in place of a returned value: no code of
\* the library catches it.
Thrown == -2

\* f(v) / getItem(v): the value returned, or Thrown.
Call(fn, v) ==
  IF Throws(fn, v) THEN Thrown
  ELSE IF fn = ThrowOn1 THEN v + 1
  ELSE Apply(fn, v)

\* predicate(v): 1 for true, 0 for false, or Thrown.
Test(p, v) ==
  IF Throws(p, v) THEN Thrown
  ELSE IF p = ThrowOn1 \/ Holds(p, v) THEN 1
  ELSE 0

\* ------------------------------------------------------------- the streams
StreamsTs == "streams.ts"
StreamsJs == "streams.js"
TypedStreamsJs == "typed-streams.js"
Versions == {StreamsTs, StreamsJs, TypedStreamsJs}

\* `let fields = { index: 0 }` inside Enumerate (streams.ts): one per enumerator.
\* In the other versions it is declared in FromArray / Infinite, outside Enumerate.
OwnFields(v) == v = StreamsTs

RECURSIVE SeqsUpTo(_)
SeqsUpTo(n) ==
  IF n = 0 THEN {<<>>}
  ELSE LET S == SeqsUpTo(n - 1)
       IN S \cup {Append(s, v) : s \in {t \in S : Len(t) = n - 1}, v \in Values}

\* let source = FromArray([1, 2, 3, 4, 5, 6])
source == <<1, 2, 3, 4, 5, 6>>

Arrays == SeqsUpTo(MaxLen) \cup {source, <<5>>}

WhereOp(p) == [op |-> "Where", fn |-> p]
MapOp(f) == [op |-> "Map", fn |-> f]

\* The combinators wrapped around the source, innermost first.
Chains ==
  {<<>>}
    \cup {<<WhereOp(p)>> : p \in Preds}
    \cup {<<MapOp(f)>> : f \in Funs}
    \cup {<<WhereOp(p), MapOp(f)>> : p \in Preds, f \in Funs}

\* typed-streams.js has neither Map nor Where.
ChainsOf(v) == IF v = TypedStreamsJs THEN {<<>>} ELSE Chains

FromArray(x, c) == [kind |-> "FromArray", x |-> x, getItem |-> "id", chain |-> c]
Infinite(g, c) == [kind |-> "Infinite", x |-> <<>>, getItem |-> g, chain |-> c]

StreamsOf(v) ==
  {FromArray(x, c) : x \in Arrays, c \in ChainsOf(v)}
    \cup {Infinite(g, c) : g \in Generators, c \in ChainsOf(v)}

\* ---------------------------------------------------------------- MoveNext
\* What happens during a MoveNext, in order:
\*   "read"      x[arg] was read and gave val
\*   "getItem"   getItem(arg) was called and gave val
\*   "f"         f(arg) was called and gave val
\*   "predicate" predicate(arg) was called and gave val (1 or 0)
\*   "MoveNext"  the MoveNext of the enumerator of the arg innermost combinators
\*               ended with val
Event(ev, arg, val) == [ev |-> ev, arg |-> arg, val |-> val]

\* The result of one MoveNext: the value returned (Thrown when it ended with an
\* exception), the index left in `fields`, the arguments getItem was called
\* with, what happened during the call, and whether the call ended within
\* MaxIndex.
Res(v, i, calls, log, ok) ==
  [val |-> v, index |-> i, calls |-> calls, log |-> log, ok |-> ok]

\* A MoveNext that increments past the end: x[fields.index++] on every call.
FromArrayMoveNextPastEnd(x, i) ==
  IF Len(x) <= i THEN Res(undefined, i + 1, <<>>, <<Event("read", i, undefined)>>, TRUE)
  ELSE Res(x[i + 1], i + 1, <<>>, <<Event("read", i, x[i + 1])>>, TRUE)

\* MoveNext: () => x.length <= fields.index ? undefined : x[fields.index++]
FromArrayMoveNext(x, i) ==
  IF Len(x) <= i THEN Res(undefined, i, <<>>, <<>>, TRUE)
  ELSE Res(x[i + 1], i + 1, <<>>, <<Event("read", i, x[i + 1])>>, TRUE)

\* A MoveNext that increments before the call: getItem(++fields.index).
InfiniteMoveNextPreIncrement(getItem, i) ==
  IF i < MaxIndex
  THEN Res(Call(getItem, i + 1), i + 1, <<i + 1>>,
           <<Event("getItem", i + 1, Call(getItem, i + 1))>>, TRUE)
  ELSE Res(undefined, i, <<>>, <<>>, FALSE)

\* A MoveNext that reports exhaustion after the first element.
InfiniteMoveNextEnds(getItem, i) ==
  IF i >= 1 THEN Res(undefined, i, <<>>, <<>>, TRUE)
  ELSE Res(Call(getItem, i), i + 1, <<i>>,
           <<Event("getItem", i, Call(getItem, i))>>, TRUE)

\* MoveNext: () => getItem(fields.index++)
InfiniteMoveNext(getItem, i) ==
  IF i < MaxIndex
  THEN Res(Call(getItem, i), i + 1, <<i>>,
           <<Event("getItem", i, Call(getItem, i))>>, TRUE)
  ELSE Res(undefined, i, <<>>, <<>>, FALSE)

SourceMoveNext(s, i) ==
  IF s.kind = "FromArray" THEN FromArrayMoveNext(s.x, i)
  ELSE InfiniteMoveNext(s.getItem, i)

\* A Map.MoveNext that catches the exception of f and reports exhaustion.
MapResultCatches(f, cur) ==
  IF cur.val = Thrown THEN cur
  ELSE IF Truthy(cur.val)
       THEN Res(IF Throws(f, cur.val) THEN undefined ELSE Call(f, cur.val),
                cur.index, cur.calls,
                Append(cur.log, Event("f", cur.val, Call(f, cur.val))), cur.ok)
       ELSE Res(undefined, cur.index, cur.calls, cur.log, cur.ok)

\* let current = enumerator.MoveNext(); return current ? f(current) : undefined
\* (an exception of the upstream MoveNext or of f leaves the function at once)
MapResult(f, cur) ==
  IF cur.val = Thrown THEN cur
  ELSE IF Truthy(cur.val)
       THEN Res(Call(f, cur.val), cur.index, cur.calls,
                Append(cur.log, Event("f", cur.val, Call(f, cur.val))), cur.ok)
       ELSE Res(undefined, cur.index, cur.calls, cur.log, cur.ok)

\* while (current && !predicate(current))
WhereContinues(p, cur) == Truthy(cur.val) /\ ~Holds(p, cur.val)

\* The enumerator's MoveNext has ended with r.
Returned(k, r) == [r EXCEPT !.log = Append(@, Event("MoveNext", k, r.val))]

RECURSIVE MoveNextAt(_, _, _)
RECURSIVE WhereLoop(_, _, _)

\* MoveNext of the enumerator of the k innermost combinators of stream s, whose
\* source enumerator reads the index i.
MoveNextAt(s, k, i) ==
  IF k = 0 THEN Returned(0, SourceMoveNext(s, i))
  ELSE IF s.chain[k].op = "Map"
       THEN Returned(k, MapResult(s.chain[k].fn, MoveNextAt(s, k - 1, i)))
       ELSE Returned(k, WhereLoop(s, k, MoveNextAt(s, k - 1, i)))

\* current = enumerator.MoveNext(), as long as the loop condition holds; the
\* predicate is called only on a truthy current.
WhereLoop(s, k, cur) ==
  IF ~cur.ok \/ cur.val = Thrown \/ ~Truthy(cur.val) THEN cur
  ELSE LET p == s.chain[k].fn
           tested == Append(cur.log, Event("predicate", cur.val, Test(p, cur.val)))
       IN IF Throws(p, cur.val)
          THEN Res(Thrown, cur.index, cur.calls, tested, cur.ok)
          ELSE IF p # ThrowOn1 /\ WhereContinues(p, cur)
               THEN LET nxt == MoveNextAt(s, k - 1, cur.index)
                    IN WhereLoop(s, k, Res(nxt.val, nxt.index, cur.calls \o nxt.calls,
                                           tested \o nxt.log, nxt.ok))
               ELSE Res(cur.val, cur.index, cur.calls, tested, cur.ok)

StreamMoveNext(s, i) == MoveNextAt(s, Len(s.chain), i)

\* let fields = { index: 0 }
NewIndex == 0

\* A Reset that leaves the index where it is.
ResetKeepsIndex(i) == i

\* Reset: () => fields.index = 0 (Map and Where delegate to it)
ResetIndex(i) == 0

\* An Enumerate that fetches the first element ahead of the first MoveNext.
EnumeratePrefetches(s, i) == MoveNextAt(s, Len(s.chain), i)

\* Enumerate: () => { let fields = { index: 0 }; return { Reset, MoveNext } } and,
\* for Map and Where, let enumerator = stream.Enumerate(): what producing an
\* enumerator of s does to the `fields` it will read, which hold index i. No
\* element is read and no function is called.
EnumerateAt(s, i) == Res(undefined, i, <<>>, <<>>, TRUE)

\* ------------------------------------------------------------ construction
\* Where(stream, predicate) and Map(stream, f), the free functions: a new stream
\* around the given one.
Where(s, p) == [s EXCEPT !.chain = Append(@, WhereOp(p))]
Map(s, f) == [s EXCEPT !.chain = Append(@, MapOp(f))]

\* Singleton = x => FromArray([x])
Singleton(x) == FromArray(<<x>>, <<>>)

\* A Where method that hands back its receiver.
MethodsWhereReturnsThis(this, p) == this

\* methods(): Where: function (this, predicate) { return Where(this, predicate) }
MethodsWhere(this, p) == Where(this, p)

\* methods(): Map: function (this, f) { return Map(this, f) }
MethodsMap(this, f) == Map(this, f)

\* methods(): ToArray: function (this) { return ToArray(this) }: the stream the
\* free function ToArray is called with.
MethodsToArray(this) == this

\* ------------------------------------------------------------------- state
Enumerators == {1, 2}
ToArrayEnumerator == 3

VARIABLES
  version,    \* which source file the stream comes from
  stream,     \* the stream under use
  index,      \* fields.index: [0] of the stream, [e] of enumerator e
  live,       \* live[e]: enumerator e has been produced by Enumerate
  out,        \* out[e]: the MoveNext results of e since Enumerate or Reset
  gcalls,     \* gcalls[e]: the arguments of getItem during those calls
  wasReset,   \* wasReset[e]: e has been Reset
  log,        \* log[c]: what happened during the latest MoveNext of c
  pc,         \* position of the ToArray call: "idle" or "while"
  result,     \* ToArray: `result`
  current,    \* ToArray: `current`
  raised,     \* the latest ToArray call ended with an exception
  arrays,     \* the arrays returned by the ToArray calls, in order
  fields,     \* Vector2: `fields` of v1
  args,       \* Vector2: the latest arguments of v1.setX and v1.setY
  v2,         \* Vector2: `fields` of the vector the latest v1.normalize() returned
  str         \* Vector2: what the latest v1.toString() returned

streamVars == <<version, stream, index, live, out, gcalls, wasReset, log, pc,
                result, current, raised, arrays>>
vectorVars == <<fields, args, v2, str>>
vars == <<streamVars, vectorVars>>

\* The `fields` record an enumerator reads and writes.
Fields(e) == IF OwnFields(version) THEN e ELSE 0

\* No vector has been made.
NoVector == <<>>
NoVectors == fields = NoVector /\ args = NoVector /\ v2 = NoVector /\ str = ""

\* A stream has been built and nothing has been done with it.
Unused ==
  /\ index = [c \in 0..ToArrayEnumerator |-> NewIndex]
  /\ live = [e \in Enumerators |-> FALSE]
  /\ out = [e \in Enumerators |-> <<>>]
  /\ gcalls = [e \in Enumerators |-> <<>>]
  /\ wasReset = [e \in Enumerators |-> FALSE]
  /\ log = [c \in 1..ToArrayEnumerator |-> <<>>]
  /\ pc = "idle"
  /\ result = <<>>
  /\ current = undefined
  /\ raised = FALSE
  /\ arrays = <<>>

InitOf(V) ==
  /\ version \in V
  /\ stream \in StreamsOf(version)
  /\ Unused
  /\ NoVectors

\* The chains of combinators the model builds: those of Chains, whatever their
\* functions.
Buildable(v, c) ==
  /\ v # TypedStreamsJs
  /\ \/ Len(c) = 1
     \/ Len(c) = 2 /\ c[1].op = "Where" /\ c[2].op = "Map"

\* stream.Where(predicate) by the caller, before the stream is used.
FluentWhere(p) ==
  /\ Unused
  /\ Buildable(version, MethodsWhere(stream, p).chain)
  /\ stream' = MethodsWhere(stream, p)
  /\ UNCHANGED <<version, index, live, out, gcalls, wasReset, log, pc, result,
                 current, raised, arrays, vectorVars>>

\* stream.Map(f) by the caller, before the stream is used.
FluentMap(f) ==
  /\ Unused
  /\ Buildable(version, MethodsMap(stream, f).chain)
  /\ stream' = MethodsMap(stream, f)
  /\ UNCHANGED <<version, index, live, out, gcalls, wasReset, log, pc, result,
                 current, raised, arrays, vectorVars>>

\* Where(stream, predicate) by the caller, before the stream is used.
FreeWhere(p) ==
  /\ Unused
  /\ Buildable(version, Where(stream, p).chain)
  /\ stream' = Where(stream, p)
  /\ UNCHANGED <<version, index, live, out, gcalls, wasReset, log, pc, result,
                 current, raised, arrays, vectorVars>>

\* Map(stream, f) by the caller, before the stream is used.
FreeMap(f) ==
  /\ Unused
  /\ Buildable(version, Map(stream, f).chain)
  /\ stream' = Map(stream, f)
  /\ UNCHANGED <<version, index, live, out, gcalls, wasReset, log, pc, result,
                 current, raised, arrays, vectorVars>>

\* stream.Enumerate() by the caller.
Enumerate(e) ==
  /\ pc = "idle"
  /\ ~live[e]
  /\ live' = [live EXCEPT ![e] = TRUE]
  /\ LET r == EnumerateAt(stream, IF OwnFields(version) THEN NewIndex ELSE index[0])
     IN /\ r.ok
        /\ index' = [index EXCEPT ![Fields(e)] = r.index]
        /\ log' = [log EXCEPT ![e] = r.log]
  /\ UNCHANGED <<version, stream, out, gcalls, wasReset, pc, result, current,
                 raised, arrays, vectorVars>>

\* enumerator.MoveNext() by the caller.
MoveNext(e) ==
  /\ pc = "idle"
  /\ live[e]
  /\ Len(out[e]) < MaxCalls
  /\ \E r \in {StreamMoveNext(stream, index[Fields(e)])} :
        /\ r.ok
        /\ index' = [index EXCEPT ![Fields(e)] = r.index]
        /\ out' = [out EXCEPT ![e] = Append(@, r.val)]
        /\ gcalls' = [gcalls EXCEPT ![e] = @ \o r.calls]
        /\ log' = [log EXCEPT ![e] = r.log]
  /\ UNCHANGED <<version, stream, live, wasReset, pc, result, current, raised,
                 arrays, vectorVars>>

\* enumerator.Reset() by the caller.
Reset(e) ==
  /\ pc = "idle"
  /\ live[e]
  /\ index' = [index EXCEPT ![Fields(e)] = ResetIndex(@)]
  /\ out' = [out EXCEPT ![e] = <<>>]
  /\ gcalls' = [gcalls EXCEPT ![e] = <<>>]
  /\ log' = [log EXCEPT ![e] = <<>>]
  /\ wasReset' = [wasReset EXCEPT ![e] = TRUE]
  /\ UNCHANGED <<version, stream, live, pc, result, current, raised, arrays,
                 vectorVars>>

\* A ToArray that calls Reset after every MoveNext.
ToArrayMovedResets(r) ==
  /\ r.ok
  /\ index' = [index EXCEPT ![Fields(ToArrayEnumerator)] = NewIndex]
  /\ log' = [log EXCEPT ![ToArrayEnumerator] = r.log]
  /\ raised' = (r.val = Thrown)
  /\ current' = IF r.val = Thrown THEN undefined ELSE r.val
  /\ pc' = IF r.val = Thrown THEN "idle" ELSE "while"

\* What a MoveNext of ToArray's enumerator that ended with r leaves: the next
\* value of `current`, or the end of the ToArray call by the exception, which
\* drops `result`.
ToArrayMoved(r) ==
  /\ r.ok
  /\ index' = [index EXCEPT ![Fields(ToArrayEnumerator)] =
                 IF r.val = Thrown /\ OwnFields(version) THEN NewIndex ELSE r.index]
  /\ log' = [log EXCEPT ![ToArrayEnumerator] = r.log]
  /\ raised' = (r.val = Thrown)
  /\ current' = IF r.val = Thrown THEN undefined ELSE r.val
  /\ pc' = IF r.val = Thrown THEN "idle" ELSE "while"

\* ToArray, by stream.ToArray() or ToArray(stream):
\*   let result = []; let enumerator = stream.Enumerate();
\*   let current = enumerator.MoveNext()
ToArrayCall ==
  /\ pc = "idle"
  /\ Len(arrays) < MaxToArray
  /\ LET this == MethodsToArray(stream)
         start == IF OwnFields(version) THEN NewIndex ELSE index[0]
     IN \E r \in {StreamMoveNext(this, start)} : ToArrayMoved(r)
  /\ result' = <<>>
  /\ UNCHANGED <<version, stream, live, out, gcalls, wasReset, arrays, vectorVars>>

\* A loop that never advances: while (current) { }
ToArrayLoopSpins ==
  /\ pc = "while"
  /\ Truthy(current)
  /\ UNCHANGED vars

\* ToArray: while (current) { result.push(current); current = enumerator.MoveNext() }
ToArrayLoop ==
  /\ pc = "while"
  /\ Truthy(current)
  /\ \E r \in {StreamMoveNext(stream, index[Fields(ToArrayEnumerator)])} :
        /\ ToArrayMoved(r)
        /\ result' = IF r.val = Thrown THEN <<>> ELSE Append(result, current)
  /\ UNCHANGED <<version, stream, live, out, gcalls, wasReset, arrays, vectorVars>>

\* ToArray: return result
ToArrayReturn ==
  /\ pc = "while"
  /\ ~Truthy(current)
  /\ arrays' = Append(arrays, result)
  /\ pc' = "idle"
  /\ result' = <<>>
  /\ current' = undefined
  /\ index' = IF OwnFields(version) THEN [index EXCEPT ![ToArrayEnumerator] = NewIndex] ELSE index
  /\ log' = [log EXCEPT ![ToArrayEnumerator] = <<>>]
  /\ UNCHANGED <<version, stream, live, out, gcalls, wasReset, raised, vectorVars>>

Next ==
  \/ \E p \in Preds : FluentWhere(p)
  \/ \E f \in Funs : FluentMap(f)
  \/ \E p \in Preds : FreeWhere(p)
  \/ \E f \in Funs : FreeMap(f)
  \/ \E e \in Enumerators : Enumerate(e)
  \/ \E e \in Enumerators : MoveNext(e)
  \/ \E e \in Enumerators : Reset(e)
  \/ ToArrayCall
  \/ ToArrayLoop
  \/ ToArrayReturn

Init == InitOf(Versions)

\* Every library version.
Spec == Init /\ [][Next]_vars

\* The library of streams.ts alone.
InitStreamsTs == InitOf({StreamsTs})

SpecStreamsTs == InitStreamsTs /\ [][Next]_vars

\* The library of streams.ts, starting from the streams FromArray and Infinite
\* return: every Where and Map is put around them by a construction step.
InitFluent ==
  /\ version = StreamsTs
  /\ stream \in {s \in StreamsOf(version) : s.chain = <<>>}
  /\ Unused
  /\ NoVectors

SpecFluent == InitFluent /\ [][Next]_vars

\* The chains in which one caller-supplied function throws.
ThrowingChains ==
  {<<WhereOp(ThrowOn1)>>, <<MapOp(ThrowOn1)>>}
    \cup {<<WhereOp(ThrowOn1), MapOp(f)>> : f \in Funs}
    \cup {<<WhereOp(p), MapOp(ThrowOn1)>> : p \in Preds}

ThrowingStreams ==
  {FromArray(x, c) : x \in Arrays, c \in ThrowingChains}
    \cup {Infinite(g, c) : g \in Generators, c \in ThrowingChains}
    \cup {Infinite(ThrowOn1, c) : c \in Chains \cup ThrowingChains}

\* The library of streams.ts, used with a function that throws.
InitThrows ==
  /\ version = StreamsTs
  /\ stream \in ThrowingStreams
  /\ Unused
  /\ NoVectors

SpecThrows == InitThrows /\ [][Next]_vars

\* The finite streams of streams.ts: those over FromArray, Singleton among them.
InitFinite ==
  /\ version = StreamsTs
  /\ stream \in {s \in StreamsOf(version) : s.kind = "FromArray"}
  /\ Unused
  /\ NoVectors

\* The caller builds a stream and calls ToArray on it.
NextToArray ==
  \/ \E p \in Preds : FluentWhere(p)
  \/ \E f \in Funs : FluentMap(f)
  \/ \E p \in Preds : FreeWhere(p)
  \/ \E f \in Funs : FreeMap(f)
  \/ ToArrayCall
  \/ ToArrayLoop
  \/ ToArrayReturn

\* ToArray is a synchronous call: once entered, its loop runs until it returns.
SpecFinite ==
  InitFinite /\ [][NextToArray]_vars /\ WF_vars(ToArrayLoop) /\ WF_vars(ToArrayReturn)

\* The predicate x => false, which accepts no element.
Never == "never"

NeverChains ==
  {<<WhereOp(Never)>>} \cup {<<WhereOp(Never), MapOp(f)>> : f \in Funs}

NeverStreams ==
  {FromArray(x, c) : x \in Arrays, c \in NeverChains \cup {<<>>}}
    \cup {Infinite(g, c) : g \in Generators, c \in NeverChains \cup {<<>>}}

\* The library of streams.ts, used with a predicate that never matches.
InitNever ==
  /\ version = StreamsTs
  /\ stream \in NeverStreams
  /\ Unused
  /\ NoVectors

SpecNever == InitNever /\ [][Next]_vars

\* ------------------------------------------------- typed-streams.js: Select
\* The values of the people example: strings, numbers, objects (records of
\* them), and undefined.
Str(t) == [s |-> t]
Num(k) == [n |-> k]
Undefined == [undefined |-> TRUE]

people ==
  << [name |-> Str("John"), surname |-> Str("Doe"), age |-> Num(27)],
     [name |-> Str("Jane"), surname |-> Str("Red"), age |-> Num(11)],
     [name |-> Str("Jill"), surname |-> Str("Miller"), age |-> Num(39)],
     [name |-> Str("Rick"), surname |-> Str("Muller"), age |-> Num(72)],
     [name |-> Str("Ross"), surname |-> Str("Franken"), age |-> Num(57)],
     [name |-> Str("Rose"), surname |-> Str("Rossi"), age |-> Num(35)],
     [name |-> Str("Gwen"), surname |-> Str("Antonio"), age |-> Num(21)] >>

RECURSIVE RecordSeqsUpTo(_)
RecordSeqsUpTo(k) ==
  IF k = 0 THEN {<<>>}
  ELSE LET S == RecordSeqsUpTo(k - 1)
       IN S \cup {Append(q, people[j]) : q \in {t \in S : Len(t) = k - 1}, j \in 1..MaxLen}

RecordArrays == RecordSeqsUpTo(MaxLen) \cup {people}

\* The fields of the records, and a key none of them has.
Keys == {"name", "surname", "age"}
MissingKey == "email"

KeyLists ==
  {<<>>}
    \cup {<<k>> : k \in Keys \cup {MissingKey}}
    \cup {q \in (Keys \cup {MissingKey}) \X (Keys \cup {MissingKey}) : q[1] # q[2]}

SelectOp(keys) == [op |-> "Select", keys |-> keys]

\* Select(stream, ...keys), the free function and, by methods().Select, the
\* method.
Select(s, keys) == [s EXCEPT !.chain = Append(@, SelectOp(keys))]

\* current[key]: undefined for a key the object does not have.
Get(o, key) == IF key \in DOMAIN o THEN o[key] ELSE Undefined

\* result[key] = v
Put(o, key, v) == [j \in DOMAIN o \cup {key} |-> IF j = key THEN v ELSE o[j]]

\* for (let i = 0; i < keys.length; i++) result[keys[i]] = current[keys[i]]
RECURSIVE SelectLoop(_, _, _, _)
SelectLoop(keys, i, cur, res) ==
  IF i > Len(keys) THEN res
  ELSE SelectLoop(keys, i + 1, cur, Put(res, keys[i], Get(cur, keys[i])))

\* A Select.MoveNext that hands the upstream object on as it is.
SelectResultCopiesAll(keys, cur) == cur

\* let result = {}; if (current == undefined) return undefined; ...; return result
SelectResult(keys, cur) ==
  IF cur = Undefined THEN Undefined ELSE SelectLoop(keys, 1, cur, <<>>)

\* FromArray of typed-streams.js:
\* MoveNext: () => x.length <= fields.index ? undefined : x[fields.index++]
TypedFromArrayMoveNext(x, i) ==
  IF Len(x) <= i THEN [val |-> Undefined, index |-> i]
  ELSE [val |-> x[i + 1], index |-> i + 1]

\* MoveNext of an enumerator of s, the one `fields` of the stream holding index i.
TypedMoveNextAt(s, i) ==
  LET cur == TypedFromArrayMoveNext(s.x, i)
  IN IF s.chain = <<>> THEN cur
     ELSE [val |-> SelectResult(s.chain[1].keys, cur.val), index |-> cur.index]

\* while (current): an object is truthy, undefined is not.
TypedTruthy(v) == v # Undefined

\* ToArray of typed-streams.js, from the first MoveNext to the return.
RECURSIVE TypedCollect(_, _, _)
TypedCollect(s, i, acc) ==
  LET r == TypedMoveNextAt(s, i)
  IN IF TypedTruthy(r.val) THEN TypedCollect(s, r.index, Append(acc, r.val))
     ELSE [array |-> acc, index |-> r.index]

\* stream.Select(...keys) or Select(stream, ...keys) by the caller, before the
\* stream is used.
SelectCall(keys) ==
  /\ Unused
  /\ stream.chain = <<>>
  /\ stream' = Select(stream, keys)
  /\ UNCHANGED <<version, index, live, out, gcalls, wasReset, log, pc, result,
                 current, raised, arrays, vectorVars>>

\* stream.Enumerate() by the caller: Select calls stream.Enumerate(), FromArray
\* makes an enumerator over the `fields` of the stream.
TypedEnumerate(e) ==
  /\ ~live[e]
  /\ live' = [live EXCEPT ![e] = TRUE]
  /\ UNCHANGED <<version, stream, index, out, gcalls, wasReset, log, pc, result,
                 current, raised, arrays, vectorVars>>

\* enumerator.MoveNext() by the caller.
TypedMoveNext(e) ==
  /\ live[e]
  /\ Len(out[e]) < MaxCalls
  /\ LET r == TypedMoveNextAt(stream, index[0])
     IN /\ index' = [index EXCEPT ![0] = r.index]
        /\ out' = [out EXCEPT ![e] = Append(@, r.val)]
  /\ UNCHANGED <<version, stream, live, gcalls, wasReset, log, pc, result,
                 current, raised, arrays, vectorVars>>

\* enumerator.Reset() by the caller.
TypedReset(e) ==
  /\ live[e]
  /\ index' = [index EXCEPT ![0] = ResetIndex(@)]
  /\ out' = [out EXCEPT ![e] = <<>>]
  /\ wasReset' = [wasReset EXCEPT ![e] = TRUE]
  /\ UNCHANGED <<version, stream, live, gcalls, log, pc, result, current,
                 raised, arrays, vectorVars>>

\* stream.ToArray() or ToArray(stream) by the caller.
TypedToArray ==
  /\ Len(arrays) < MaxToArray
  /\ LET r == TypedCollect(stream, index[0], <<>>)
     IN /\ arrays' = Append(arrays, r.array)
        /\ index' = [index EXCEPT ![0] = r.index]
  /\ UNCHANGED <<version, stream, live, out, gcalls, wasReset, log, pc, result,
                 current, raised, vectorVars>>

\* The record streams are used through one enumerator and ToArray.
TypedEnumerators == {1}

NextSelect ==
  \/ \E keys \in KeyLists : SelectCall(keys)
  \/ \E e \in TypedEnumerators : TypedEnumerate(e)
  \/ \E e \in TypedEnumerators : TypedMoveNext(e)
  \/ \E e \in TypedEnumerators : TypedReset(e)
  \/ TypedToArray

InitSelect ==
  /\ version = TypedStreamsJs
  /\ stream \in {FromArray(x, <<>>) : x \in RecordArrays}
  /\ Unused
  /\ NoVectors

\* typed-streams.js over arrays of records.
SpecSelect == InitSelect /\ [][NextSelect]_vars

\* -------------------------------------------------------------- vector2.ts
Vector2Ts == "vector2.ts"

\* The coordinates the vectors are made and set with: those of the example
\* (5, 3 and 2) among them.
Coords == (0..MaxVal) \cup {2, 3, 5}

\* let fields = { x: x, y: y }
Vector2(x, y) == [x |-> x, y |-> y]

\* getX: () => fields.x, getY: () => fields.y
getX(f) == f.x
getY(f) == f.y

\* A setX that writes the other field.
setXWritesY(f, x) == [f EXCEPT !.y = x]

\* setX: x => fields.x = x, setY: y => fields.y = y
setX(f, x) == [f EXCEPT !.x = x]
setY(f, y) == [f EXCEPT !.y = y]

\* length: Math.sqrt(fields.x * fields.x + fields.y * fields.y), kept as the
\* number under the root.
length(f) == [sqrt |-> f.x * f.x + f.y * f.y]

\* a / b for a number a and a root b, kept as the pair.
Divide(a, b) == [num |-> a, den |-> b]

\* normalize: Vector2(fields.x / this.length(), fields.y / this.length())
normalize(f) == Vector2(Divide(f.x, length(f)), Divide(f.y, length(f)))

\* `${n}` for the numbers 0 to 9
NumberString(k) == <<"0", "1", "2", "3", "4", "5", "6", "7", "8", "9">>[k + 1]

\* toString: () => `(${fields.x}, ${fields.y})`
toString(f) == "(" \o NumberString(f.x) \o ", " \o NumberString(f.y) \o ")"

\* No stream is in use.
NoStream == FromArray(<<>>, <<>>)

\* let v1 = Vector2(x, y)
InitVector2 ==
  /\ version = Vector2Ts
  /\ stream = NoStream
  /\ Unused
  /\ \E x \in Coords, y \in Coords : fields = Vector2(x, y) /\ args = Vector2(x, y)
  /\ v2 = NoVector
  /\ str = ""

\* v1.setX(x)
CallSetX(x) ==
  /\ fields' = setX(fields, x)
  /\ args' = [args EXCEPT !.x = x]
  /\ UNCHANGED <<streamVars, v2, str>>

\* v1.setY(y)
CallSetY(y) ==
  /\ fields' = setY(fields, y)
  /\ args' = [args EXCEPT !.y = y]
  /\ UNCHANGED <<streamVars, v2, str>>

\* let v2 = v1.normalize()
CallNormalize ==
  /\ v2' = normalize(fields)
  /\ UNCHANGED <<streamVars, fields, args, str>>

\* const s = v1.toString()
CallToString ==
  /\ str' = toString(fields)
  /\ UNCHANGED <<streamVars, fields, args, v2>>

NextVector2 ==
  \/ \E x \in Coords : CallSetX(x)
  \/ \E y \in Coords : CallSetY(y)
  \/ CallNormalize
  \/ CallToString

SpecVector2 == InitVector2 /\ [][NextVector2]_vars

\* ------------------------------------------------------- expected results
\* The results of n successive MoveNext calls on an enumerator of s that is the
\* only user of its `fields`, starting at index i.
RECURSIVE Drain(_, _, _)
Drain(s, i, n) ==
  IF n = 0 THEN <<>>
  ELSE LET r == StreamMoveNext(s, i)
       IN <<r.val>> \o Drain(s, r.index, n - 1)

\* The results of the first n MoveNext calls of a freshly produced enumerator.
Fresh(s, n) == Drain(s, NewIndex, n)

Filtered(x, p) == SelectSeq(x, LAMBDA v : Holds(p, v))
Mapped(x, f) == [k \in 1..Len(x) |-> Apply(f, x[k])]

\* ToArray(s) on a stream whose enumerators have their own `fields`: how the
\* call ends ("return", "throw", or "none" within MaxIndex) and the array.
RECURSIVE Collect(_, _, _)
Collect(s, i, acc) ==
  LET r == StreamMoveNext(s, i)
  IN IF ~r.ok THEN [ends |-> "none", array |-> <<>>]
     ELSE IF r.val = Thrown THEN [ends |-> "throw", array |-> <<>>]
     ELSE IF Truthy(r.val) THEN Collect(s, r.index, Append(acc, r.val))
     ELSE [ends |-> "return", array |-> acc]

ToArray(s) == Collect(s, NewIndex, <<>>)

\* Two streams whose enumerators give the same results from every index on.
SameResults(s, t) ==
  \A i \in 0..MaxIndex : Drain(s, i, MaxCalls) = Drain(t, i, MaxCalls)

\* The values the events named ev of the latest MoveNext of c carry, for arg a.
EventVals(c, ev, a) ==
  LET evs == SelectSeq(log[c], LAMBDA x : x.ev = ev /\ x.arg = a)
  IN [k \in 1..Len(evs) |-> evs[k].val]

OnlyMaps(c) == \A k \in 1..Len(c) : c[k].op = "Map"
Last(q) == q[Len(q)]

\* ------------------------------------------------------------------ claims

\* C1: for every finite array xs, 0 and other falsy elements included,
\* ToArray(FromArray(xs)) returns an array equal to xs.
C1_RoundTrip ==
  (version = StreamsTs /\ stream.kind = "FromArray" /\ stream.chain = <<>>)
    => \A k \in 1..Len(arrays) : arrays[k] = stream.x

\* C2: in every library version, two enumerators of one stream are independent:
\* under any interleaving of their MoveNext and Reset calls each returns the
\* sequence it would return as the only enumerator of the stream.
C2_Independent ==
  (arrays = <<>> /\ pc = "idle")
    => \A e \in Enumerators : live[e] => out[e] = Fresh(stream, Len(out[e]))

\* C3: two ToArray calls on the same FromArray-based stream return equal arrays.
C3_ToArrayTwice ==
  (stream.kind = "FromArray" /\ Len(arrays) >= 2 /\ \A e \in Enumerators : ~live[e])
    => arrays[1] = arrays[2]

\* C4: ToArray(Where(FromArray(xs), p)) is the sub-sequence of the elements of
\* xs for which p holds, in their order.
C4_Where ==
  \A p \in Preds :
    (version = StreamsTs /\ stream.kind = "FromArray"
       /\ stream.chain = <<WhereOp(p)>> /\ Len(arrays) >= 1)
      => arrays[1] = Filtered(stream.x, p)

\* C5: ToArray(Map(FromArray(xs), f)) is xs with f applied to every element.
C5_Map ==
  \A f \in Funs :
    (version = StreamsTs /\ stream.kind = "FromArray"
       /\ stream.chain = <<MapOp(f)>> /\ Len(arrays) >= 1)
      => arrays[1] = Mapped(stream.x, f)

\* C6: FromArray(xs).Where(p).Map(f).ToArray() is f applied, in order, to
\* exactly the elements of xs that satisfy p.
C6_WhereMap ==
  \A p \in Preds, f \in Funs :
    (version = StreamsTs /\ stream.kind = "FromArray"
       /\ stream.chain = <<WhereOp(p), MapOp(f)>> /\ Len(arrays) >= 1)
      => arrays[1] = Mapped(Filtered(stream.x, p), f)

\* The example of C6 alone: FromArray([1,2,3,4,5,6]).Where(x => x % 2 == 0)
\* .Map(x => x * 3).ToArray() is [6, 12, 18].
numbers ==
  (version = StreamsTs
     /\ stream = FromArray(source, <<WhereOp("even"), MapOp("times3")>>)
     /\ Len(arrays) >= 1)
    => arrays[1] = <<6, 12, 18>>

numbersReturned ==
  /\ version = StreamsTs
  /\ stream = FromArray(source, <<WhereOp("even"), MapOp("times3")>>)
  /\ Len(arrays) >= 1

\* C7: on an enumerator of a finite stream, once MoveNext has returned
\* undefined, the next MoveNext returns undefined too (Reset starts a new run).
C7_NoResurrection ==
  [][\A e \in Enumerators :
       (/\ version = StreamsTs
        /\ stream.kind = "FromArray"
        /\ out[e] # <<>>
        /\ Last(out[e]) = undefined
        /\ Len(out'[e]) = Len(out[e]) + 1)
         => Last(out'[e]) = undefined]_vars

C9_InfiniteElements ==
  \A e \in Enumerators :
    (stream.kind = "Infinite" /\ stream.chain = <<>>)
      => /\ out[e] = [k \in 1..Len(out[e]) |-> Apply(stream.getItem, k - 1)]
         /\ gcalls[e] = [k \in 1..Len(out[e]) |-> k - 1]

C9_Witness ==
  \E e \in Enumerators :
    /\ stream.kind = "Infinite"
    /\ stream.chain = <<>>
    /\ stream.getItem = "plus1"
    /\ Len(out[e]) = MaxCalls
    /\ \E d \in Enumerators : d # e /\ live[d] /\ Len(out[d]) = 1

\* C10: ToArray never returns on an infinite stream (Infinite(g), directly or
\* through Map), whatever the generator.
C10_NeverReturns ==
  (version = StreamsTs /\ stream.kind = "Infinite" /\ OnlyMaps(stream.chain))
    => arrays = <<>>

\* C12: Singleton(v) behaves as FromArray([v]): the first MoveNext of a fresh
\* enumerator returns v, every later one the exhausted marker, and
\* ToArray(Singleton(v)) is [v].
C12_Singleton ==
  \A v \in Values \cup {5} :
    stream = Singleton(v) =>
      /\ stream = FromArray(<<v>>, <<>>)
      /\ \A e \in Enumerators : \A k \in 1..Len(out[e]) :
            out[e][k] = IF k = 1 THEN v ELSE undefined
      /\ \A k \in 1..Len(arrays) : arrays[k] = <<v>>

\* C13: the fluent methods are sugar: the enumerators of s.Where(p) and s.Map(f)
\* give the results of those of Where(s, p) and Map(s, f) from every index on,
\* for every stream s that has been built, and s.ToArray() ends as ToArray(s)
\* does and returns its array.
C13_FluentIsFree ==
  /\ Unused =>
       /\ \A p \in Preds : SameResults(MethodsWhere(stream, p), Where(stream, p))
       /\ \A f \in Funs : SameResults(MethodsMap(stream, f), Map(stream, f))
       /\ ToArray(MethodsToArray(stream)) = ToArray(stream)
  /\ \A k \in 1..Len(arrays) : arrays[k] = ToArray(stream).array

C13_Witness ==
  /\ \E p \in Preds, f \in Funs : stream.chain = <<WhereOp(p), MapOp(f)>>
  /\ stream.kind = "FromArray"
  /\ Len(arrays) = 1 /\ arrays[1] # <<>>
  /\ \E e \in Enumerators : wasReset[e] /\ Len(out[e]) = MaxCalls

C18_MapExhaustedIffUpstream ==
  \A e \in Enumerators :
    (stream.chain # <<>> /\ Last(stream.chain).op = "Map" /\ log[e] # <<>>) =>
      LET u == Last(EventVals(e, "MoveNext", Len(stream.chain) - 1))
          ret == Last(out[e])
      IN /\ (ret = undefined) <=> (u = undefined)
         /\ u # undefined => ret = Apply(Last(stream.chain).fn, u)

\* C19: a Where enumerator's MoveNext returns the exhausted marker or an upstream
\* element the predicate accepts; it skips only rejected elements, and it
\* returns the exhausted marker only when the upstream enumerator did.
C19_WhereAccepted ==
  \A e \in Enumerators :
    (stream.chain # <<>> /\ stream.chain[1].op = "Where" /\ log[e] # <<>>) =>
      LET p == stream.chain[1].fn
          us == EventVals(e, "MoveNext", 0)
          w == Last(EventVals(e, "MoveNext", 1))
      IN /\ w = Last(us)
         /\ w # undefined => Holds(p, w)
         /\ \A j \in 1..(Len(us) - 1) : us[j] # undefined /\ ~Holds(p, us[j])

\* C20: the index of a FromArray enumerator over an array of length n stays in
\* 0..n; MoveNext reads x[index] and increments when index < n, returns the
\* exhausted marker and leaves index alone when index = n, and reads no place
\* outside 0..n-1.
C20_IndexInRange ==
  [][stream.kind = "FromArray" =>
       /\ \A c \in 0..ToArrayEnumerator : index'[c] \in 0..Len(stream.x)
       /\ \A c \in 1..ToArrayEnumerator : \A k \in 1..Len(log'[c]) :
            log'[c][k].ev = "read" =>
              /\ log'[c][k].arg \in 0..(Len(stream.x) - 1)
              /\ log'[c][k].val = stream.x[log'[c][k].arg + 1]
       /\ \A e \in Enumerators :
            (stream.chain = <<>> /\ Len(out'[e]) = Len(out[e]) + 1) =>
              IF index[e] < Len(stream.x)
              THEN Last(out'[e]) = stream.x[index[e] + 1] /\ index'[e] = index[e] + 1
              ELSE Last(out'[e]) = undefined /\ index'[e] = index[e]]_vars

C20_Witness ==
  /\ stream.kind = "FromArray" /\ stream.chain = <<>> /\ Len(stream.x) >= 1
  /\ \E e \in Enumerators :
        /\ wasReset[e]
        /\ Len(out[e]) = Len(stream.x) + 1
        /\ Last(out[e]) = undefined
        /\ index[e] = Len(stream.x)

\* The place in q of the first call of a caller-supplied function that threw, or
\* 0 when there is none.
ThrowAt(q) ==
  LET ks == {k \in 1..Len(q) : q[k].ev # "MoveNext" /\ q[k].val = Thrown}
  IN IF ks = {} THEN 0 ELSE CHOOSE k \in ks : \A j \in ks : k <= j

\* C15: when f, the predicate or getItem throws during a MoveNext, no function
\* is called after it, every enclosing MoveNext ends with the exception, the
\* caller of the outermost gets it, and a ToArray call ends with it, returning
\* no array.
C15_ErrorsPropagate ==
  [][\A c \in 1..ToArrayEnumerator :
       LET q == log'[c]
       IN ThrowAt(q) # 0 =>
            /\ ThrowAt(q) < Len(q)
            /\ \A j \in (ThrowAt(q) + 1)..Len(q) :
                 q[j].ev = "MoveNext" /\ q[j].val = Thrown
            /\ c \in Enumerators => Last(out'[c]) = Thrown
            /\ c = ToArrayEnumerator =>
                 /\ raised' /\ pc' = "idle" /\ result' = <<>>
                 /\ arrays' = arrays]_vars

C15_Witness ==
  /\ \E p \in Preds : stream.chain = <<WhereOp(p), MapOp(ThrowOn1)>>
  /\ raised /\ ThrowAt(log[ToArrayEnumerator]) # 0
  /\ \E e \in Enumerators : Len(out[e]) >= 2 /\ Last(out[e]) = Thrown

Range(q) == {q[k] : k \in 1..Len(q)}

\* C11: ToArray(Select(FromArray(rs), keys)), for keys that are fields of the
\* records, has the length and order of rs, and its i-th record has exactly the
\* keys asked for, with the values of rs[i]; the people example gives 7 records
\* with name and surname and without age.
C11_Select ==
  [][\A keys \in KeyLists :
       ( /\ stream.chain = <<SelectOp(keys)>>
         /\ Range(keys) \subseteq Keys
         /\ index[0] = NewIndex
         /\ Len(arrays') = Len(arrays) + 1 ) =>
           LET a == Last(arrays')
           IN /\ Len(a) = Len(stream.x)
              /\ \A i \in 1..Len(a) :
                   /\ DOMAIN a[i] = Range(keys)
                   /\ \A key \in Range(keys) : a[i][key] = stream.x[i][key]
              /\ (stream.x = people /\ keys = <<"name", "surname">>) =>
                   a = << [name |-> Str("John"), surname |-> Str("Doe")],
                          [name |-> Str("Jane"), surname |-> Str("Red")],
                          [name |-> Str("Jill"), surname |-> Str("Miller")],
                          [name |-> Str("Rick"), surname |-> Str("Muller")],
                          [name |-> Str("Ross"), surname |-> Str("Franken")],
                          [name |-> Str("Rose"), surname |-> Str("Rossi")],
                          [name |-> Str("Gwen"), surname |-> Str("Antonio")] >>]_vars

C11_Witness ==
  /\ stream = Select(FromArray(people, <<>>), <<"name", "surname">>)
  /\ Len(arrays) >= 1
  /\ Len(arrays[1]) = Len(people)
  /\ arrays[1][1] = [name |-> Str("John"), surname |-> Str("Doe")]

\* C16: Select with a key that is no field of the upstream record never returns
\* a record in which a key asked for is bound to undefined.
C16_MissingKey ==
  \A e \in Enumerators : \A k \in 1..Len(out[e]) :
    out[e][k] # Undefined =>
      \A key \in DOMAIN out[e][k] : out[e][k][key] # Undefined

\* C17: getX returns the argument of the latest setX (x0 if none) and getY that
\* of the latest setY (y0 if none); setX leaves y and setY leaves x as it was;
\* normalize returns a new vector and leaves x and y of the receiver as they
\* were; Vector2(5, 3) prints "(5, 3)" and, after setX(2), "(2, 3)".
C17_Vector2 ==
  [][/\ getX(fields') = args'.x /\ getY(fields') = args'.y
     /\ \A x \in Coords : CallSetX(x) => getY(fields') = getY(fields)
     /\ \A y \in Coords : CallSetY(y) => getX(fields') = getX(fields)
     /\ CallNormalize =>
          /\ fields' = fields
          /\ v2' = Vector2(Divide(getX(fields), length(fields)),
                           Divide(getY(fields), length(fields)))
     /\ (CallToString /\ fields = Vector2(5, 3)) => str' = "(5, 3)"
     /\ (CallToString /\ fields = setX(Vector2(5, 3), 2)) => str' = "(2, 3)"]_vars

C17_Witness ==
  /\ fields = Vector2(2, 3) /\ args = Vector2(2, 3)
  /\ str = "(2, 3)"
  /\ v2 = normalize(Vector2(5, 3))

\* C21: no read-ahead: a MoveNext of a Map enumerator makes exactly one MoveNext
\* of its upstream enumerator; a MoveNext of a Where enumerator makes upstream
\* MoveNext calls up to and including the first that returns an accepted
\* element or the exhausted marker, and none after it.
C21_NoReadAhead ==
  \A e \in Enumerators :
    (stream.chain # <<>> /\ log[e] # <<>>) =>
      /\ Last(stream.chain).op = "Map" =>
           Len(EventVals(e, "MoveNext", Len(stream.chain) - 1)) = 1
      /\ stream.chain[1].op = "Where" =>
           LET p == stream.chain[1].fn
               us == EventVals(e, "MoveNext", 0)
           IN /\ Len(EventVals(e, "MoveNext", 1)) = 1
              /\ Len(us) >= 1
              /\ Last(us) = undefined \/ Holds(p, Last(us))
              /\ \A j \in 1..(Len(us) - 1) : us[j] # undefined /\ ~Holds(p, us[j])

\* C22: an enumerator of Infinite(getItem) never returns the exhausted marker on
\* its own: every MoveNext calls getItem and returns the element it gives.
C22_InfiniteNeverExhausted ==
  \A e \in Enumerators :
    (stream.kind = "Infinite" /\ stream.chain = <<>>) =>
      /\ \A k \in 1..Len(out[e]) : out[e][k] # undefined
      /\ Len(gcalls[e]) = Len(out[e])
      /\ log[e] # <<>> => log[e][1] = Event("getItem", Last(gcalls[e]), Last(out[e]))

C22_Witness ==
  \E e \in Enumerators :
    /\ stream = Infinite("id", <<>>)
    /\ wasReset[e]
    /\ Len(out[e]) = MaxCalls
    /\ \E k \in 1..Len(out[e]) : ~Truthy(out[e][k])

\* C23: a MoveNext of an enumerator of Where(Infinite(getItem), predicate) never
\* returns when the predicate is false for every element: no result of such a
\* call is ever there.
C23_WhereNeverReturns ==
  \A e \in Enumerators :
    (stream.kind = "Infinite" /\ stream.chain = <<WhereOp(Never)>>) => out[e] = <<>>

C25_ToArrayPrefix ==
  /\ pc = "while" =>
       /\ Append(result, current) = Fresh(stream, Len(result) + 1)
       /\ \A j \in 1..Len(result) : result[j] # undefined
  /\ \A k \in 1..Len(arrays) :
       /\ arrays[k] = SubSeq(Fresh(stream, Len(arrays[k]) + 1), 1, Len(arrays[k]))
       /\ \A j \in 1..Len(arrays[k]) : arrays[k][j] # undefined

C25_Witness ==
  /\ stream.kind = "FromArray" /\ stream.chain = <<>>
  /\ pc = "idle"
  /\ Len(arrays) >= 1
  /\ arrays[1] # <<>>
  /\ Len(arrays[1]) < Len(stream.x)

====
